---- MODULE Spec2Model ----
(***************************************************************************)
(* timeoutd: a decorator that bounds the run time of a function call.      *)
(*                                                                         *)
(* One behaviour of this module is one evaluation of timeout(...) on a     *)
(* configuration, followed by one call of the decorated function.  The     *)
(* call runs through the pipeline assembled by timeout.decorate: the       *)
(* bounded executor (signal timer or worker process), the recovery stage   *)
(* and the retry stage.  Time is a discrete clock; the wrapped function,   *)
(* the interval timer, the worker process and the caller's poll loop are   *)
(* interleaved freely.                                                     *)
(***************************************************************************)
EXTENDS Integers, Sequences, FiniteSets, TLC

(* ------------------------------ bounds --------------------------------- *)

\* Largest number of seconds a configuration or an override may ask for.
MaxSeconds == 2
\* Largest valid retries value of a configuration.
MaxRetries == 1
\* The clock stops at MaxTime; an executor is only started when its bound
\* can still elapse before the clock stops.
MaxTime == 8
\* Longest time that passes before timeout(...) is evaluated and before the
\* decorated function is called.
MaxIdle == 2

(* ----------------------------- encodings ------------------------------- *)

\* retries is drawn in half units, so that 2 is the integer 1, 3 is the
\* float 1.5 and -3 is the float -1.5; NoRetries is retries=None.
NoRetries == -100
\* The `timeout` keyword is absent from the call.
Absent == -1
NoMsg == "<None>"
NoCallable == "<None>"

ExceptionTypes == {"TimeoutError", "RuntimeError"}
\* issubclass(exception_type, Exception)
IsExceptionSubclass(t) == t \in ExceptionTypes \cup {"ValueError"}

\* (mutant) a test for `is not None` where a truth test is meant.
TruthyIsNotNone(s) == s >= 0

\* A Python truth test of a number of seconds (None and 0 are falsy).
Truthy(s) == s > 0

\* A value returned by a callable: who produced it and from which arguments.
Val(src, args, kwargs) == [src |-> src, args |-> args, kwargs |-> kwargs]
NoneValue == Val("None", <<>>, <<>>)
NoResult == [kind |-> "none", exc |-> "", eargs |-> <<>>, val |-> NoneValue]
Return(v) == [kind |-> "return", exc |-> "", eargs |-> <<>>, val |-> v]
Raise(e, a) == [kind |-> "raise", exc |-> e, eargs |-> a, val |-> NoneValue]

\* exceptions._raise_exception: exception() without a message, else
\* exception(exception_message).
RaiseException(exception, exception_message) ==
    IF exception_message = NoMsg
      THEN Raise(exception, <<>>)
      ELSE Raise(exception, <<exception_message>>)

\* The wrapped function applied to its arguments, and the error it raises
\* when it fails by itself.
FnValue(a) == Val("f", a.args, a.kwargs)
FnError == Raise("ValueError", <<"boom">>)
\* The user's on_timeout callable applied to its arguments.
CbValue(args, kwargs) == Val("on_timeout", args, kwargs)

\* The arguments of the decorated call; the reserved keyword is kept apart.
CallArgs(override) == [args |-> <<1, 2>>, kwargs |-> <<>>, timeout |-> override]

(* ------------------------------- state --------------------------------- *)

VARIABLES
    cfg,          \* the arguments of timeout(...)
    pc,           \* where the caller's thread of control is
    cfgError,     \* the error timeout(...) raised, "" when none
    retries,      \* _retries of timeout(), after validation
    now,          \* the clock
    callArgs,     \* arguments of the decorated call
    curArgs,      \* arguments of the running executor invocation
    stageAttempt, \* attempts the retry stage has started
    inFallback,   \* the running executor invocation is a recovery fallback
    execCount,    \* executor invocations of this call
    cbCount,      \* invocations of the user's on_timeout
    outcome,      \* the result of the decorated call
    sigHandler,   \* the installed SIGALRM handler
    itimer,       \* ITIMER_REAL: 0 when disarmed, else the time it fires + 1
    sig,          \* locals of the signal wrapper's running invocation
    w,            \* the worker process of the running _Timeout
    q,            \* the result channel of the running _Timeout
    t,            \* fields of the running _Timeout
    hist,         \* observations of the last executor invocation
    lastExec,     \* how the last executor invocation ended, if it has
    timeArgs,     \* limit, seconds, minutes, hours as passed to timeout(...)
    nest          \* frames of a decorated call made by a decorated function

vars == <<cfg, pc, cfgError, retries, now, callArgs, curArgs, stageAttempt,
          inFallback, execCount, cbCount, outcome, sigHandler, itimer, sig,
          w, q, t, hist, lastExec, timeArgs, nest>>

(* ---------------------------- configuration ---------------------------- *)

RetriesInputs == {NoRetries} \cup (-3 .. 2 * MaxRetries + 1)

Configs ==
    [ seconds : 0 .. MaxSeconds,
      use_signals : BOOLEAN,
      exception_type : ExceptionTypes \cup {"int"},
      exception_message : {NoMsg, "Timeout exceeded."},
      on_timeout : {NoCallable, "on_timeout"},
      on_timeout_args : {<<>>, <<7>>},
      on_timeout_kwargs : {<<>>, <<9>>},
      retries : RetriesInputs ]

\* (mutant) the isinstance test of retries made before its sign test.
ConfigErrorTypeFirst(c) ==
    LET r == IF c.retries = NoRetries THEN 0 ELSE c.retries IN
    IF ~IsExceptionSubclass(c.exception_type) THEN "TypeError"
    ELSE IF r % 2 # 0 THEN "TypeError"
    ELSE IF r < 0 THEN "ValueError"
    ELSE ""

\* timeout(): the checks made when the decorator is evaluated, in the
\* order of the source.  "" when the configuration is accepted.
ConfigError(c) ==
    LET r == IF c.retries = NoRetries THEN 0 ELSE c.retries IN
    IF ~IsExceptionSubclass(c.exception_type) THEN "TypeError"
    ELSE IF r < 0 THEN "ValueError"
    ELSE IF r % 2 # 0 THEN "TypeError"
    ELSE ""

\* The configurations drawn.  One that timeout() rejects is drawn with a
\* single choice of the arguments that are never read; retries=None is
\* drawn with the default error and no on_timeout; on_timeout arguments
\* are drawn where a recovery stage is built.
Canonical(c) ==
    /\ ConfigError(c) # ""
         => /\ c.seconds = 1 /\ c.use_signals /\ c.exception_message = NoMsg
            /\ c.on_timeout = NoCallable /\ c.on_timeout_args = <<>>
    /\ c.retries = NoRetries
         => /\ c.exception_message = NoMsg /\ c.on_timeout = NoCallable
            /\ c.exception_type \in {"TimeoutError", "int"}
    /\ (c.on_timeout = NoCallable /\ c.retries \in {NoRetries, 0})
         => c.on_timeout_args = <<>>
    /\ c.on_timeout_args = <<>> => c.on_timeout_kwargs = <<>>

(* ------------------------- time limit resolution ---------------------- *)

\* An argument of timeout(...) that was left at None.
Unset == -1

\* limit: None, a number of seconds, a timedelta or a datetime.  Times are
\* whole seconds; a datetime is a reading of the clock `now`.
NoLimit == [kind |-> "none", v |-> 0]

Number(n) == [kind |-> "number", v |-> n]

Timedelta(n) == [kind |-> "timedelta", v |-> n]

Datetime(n) == [kind |-> "datetime", v |-> n]

\* (mutant) the limit, when given, used alone.
time_to_seconds_limit_alone(limit, seconds, minutes, hours, at) ==
    IF limit.kind = "none"
      THEN (IF seconds = Unset THEN 0 ELSE seconds)
           + (IF minutes = Unset THEN 0 ELSE minutes * 60)
           + (IF hours = Unset THEN 0 ELSE hours * 3600)
      ELSE IF limit.kind = "datetime" THEN limit.v - at ELSE limit.v

\* converters.time_to_seconds, evaluated when the clock reads `at`.
time_to_seconds(limit, seconds, minutes, hours, at) ==
    (CASE limit.kind = "none" -> 0
       [] limit.kind = "datetime" -> limit.v - at
       [] OTHER -> limit.v)
    + (IF seconds = Unset THEN 0 ELSE seconds)
    + (IF minutes = Unset THEN 0 ELSE minutes * 60)
    + (IF hours = Unset THEN 0 ELSE hours * 3600)

\* timeout(seconds=s): the one time input of the configurations above.
OnlySeconds(s) == [limit |-> NoLimit, seconds |-> s, minutes |-> Unset,
                   hours |-> Unset, at |-> 0]

\* No decorated function calls a decorated function.
NoNest == [depth |-> 0]

NoSig == [new_seconds |-> 0, old_handler |-> "", in_try |-> FALSE,
          pending |-> NoResult]
NoWorker == [started |-> FALSE, alive |-> FALSE, stage |-> "none",
             term |-> FALSE, item |-> NoResult, picklable |-> TRUE]
NoQueue == [sem |-> FALSE, pipe |-> NoResult]
NoTimeout == [limit |-> 0, timeout |-> 0]
\* What the claims need to know of the running executor invocation:
\*   bound      the seconds it enforces, armed when they are truthy
\*   fnResult   what the wrapped function ended with by itself
\*   inTime     it ended (and, in a worker, its result arrived in the pipe)
\*              strictly before the bound had elapsed
\*   late       it was still running after the bound had elapsed
\*   lost       the worker is gone and nothing arrived in the pipe
\*   fired      the timer fired / cancel() terminated the worker
\*   puts, gets how often the worker called queue.put, the caller queue.get
NoHist == [armed |-> FALSE, bound |-> 0, fnResult |-> NoResult,
           inTime |-> FALSE, late |-> FALSE, lost |-> FALSE, fired |-> FALSE,
           puts |-> 0, gets |-> 0]

Init ==
    /\ cfg \in {c \in Configs : Canonical(c)}
    /\ pc = "config"
    /\ cfgError = ""
    /\ retries = 0
    /\ now = 0
    /\ callArgs = CallArgs(Absent)
    /\ curArgs = CallArgs(Absent)
    /\ stageAttempt = 0
    /\ inFallback = FALSE
    /\ execCount = 0
    /\ cbCount = 0
    /\ outcome = NoResult
    /\ sigHandler = "previous"
    /\ itimer = 0
    /\ sig = NoSig
    /\ w = NoWorker
    /\ q = NoQueue
    /\ t = NoTimeout
    /\ hist = NoHist
    /\ lastExec = NoResult
    /\ timeArgs = OnlySeconds(cfg.seconds)
    /\ nest = NoNest

\* timeout(...)(function): the configuration is checked, `seconds` is bound
\* anew to the resolved bound, then the pipeline is assembled around the
\* function.
Decorate ==
    /\ pc = "config"
    /\ cfgError' = ConfigError(cfg)
    /\ IF ConfigError(cfg) = ""
         THEN /\ pc' = "decorated"
              /\ retries' = (IF cfg.retries = NoRetries THEN 0
                             ELSE cfg.retries \div 2)
              /\ cfg' = [cfg EXCEPT !.seconds =
                           time_to_seconds(timeArgs.limit, timeArgs.seconds,
                                           timeArgs.minutes, timeArgs.hours,
                                           now)]
              /\ timeArgs' = [timeArgs EXCEPT !.at = now]
         ELSE /\ pc' = "config_error"
              /\ retries' = retries
              /\ UNCHANGED <<cfg, timeArgs>>
    /\ UNCHANGED <<nest, now, callArgs, curArgs, stageAttempt, inFallback,
                   execCount, cbCount, outcome, sigHandler, itimer, sig,
                   w, q, t, hist, lastExec>>

(* ------------------------- pipeline assembly --------------------------- *)

\* timeout.decorate: which stages wrap the executor.
\* "none": the bare executor; "user": exception_handler with the user's
\* on_timeout; "executor": exception_handler whose on_timeout is the
\* executor itself (retries > 0 and no on_timeout).
Recovery ==
    IF retries = 0
      THEN (IF cfg.on_timeout = NoCallable THEN "none" ELSE "user")
      ELSE (IF cfg.on_timeout = NoCallable THEN "executor" ELSE "user")

HasRetryStage == retries # 0

\* The arguments the recovery stage hands to its on_timeout callable.
FallbackArgs ==
    [args |-> cfg.on_timeout_args, kwargs |-> cfg.on_timeout_kwargs,
     timeout |-> Absent]

\* (mutant) the bound resolved anew from the time inputs at every call.
EffectiveSecondsAtCallTime(a) ==
    IF a.timeout = Absent
      THEN time_to_seconds(timeArgs.limit, timeArgs.seconds,
                           timeArgs.minutes, timeArgs.hours, now)
      ELSE a.timeout

\* kwargs.pop("timeout", seconds): the bound of one executor invocation.
EffectiveSeconds(a) == IF a.timeout = Absent THEN cfg.seconds ELSE a.timeout

\* The clock can still run past the bound of an invocation started now
\* (the clock of the model stops at MaxTime).
CanElapse(a) == now + EffectiveSeconds(a) + 1 <= MaxTime

\* What the alarm handler and cancel() raise:
\* _raise_exception(exception_type, exception_message).
TimeoutFailure == RaiseException(cfg.exception_type, cfg.exception_message)

\* (mutant) an except clause that takes every error.
IsAnyError(r) == r.kind = "raise"

IsTimeoutError(r) == r.kind = "raise" /\ r.exc = cfg.exception_type

\* retry_handler: whether the retry stage makes another attempt after the
\* recovery stage ended with r.
RetryAgain(r) ==
    HasRetryStage /\ IsTimeoutError(r) /\ stageAttempt <= retries

\* (mutant) `except Exception` where `except exception_type` is meant.
CatchesAnyError(r) == Recovery # "none" /\ ~inFallback /\ r.kind = "raise"

\* _exception_handler: `except exception_type` around the executor call.
Catches(r) == Recovery # "none" /\ ~inFallback /\ IsTimeoutError(r)

\* The state of one executor invocation: the wrapper's locals, the
\* _Timeout with its process and queue, and what was observed of it.
Att(s, ww, qq, h) == [sig |-> s, w |-> ww, q |-> qq, hist |-> h]

\* The running executor invocation ends with r, leaving the state a: the
\* recovery stage catches r, or the retry stage starts a fresh attempt, or
\* r is the result of the decorated call.  An invocation that is followed
\* by another one leaves nothing behind but what was observed of it.
ExecEnds(r, a) ==
    /\ lastExec' = r
    /\ hist' = a.hist
    /\ IF Catches(r) \/ RetryAgain(r)
         THEN sig' = NoSig /\ w' = NoWorker /\ q' = NoQueue /\ t' = NoTimeout
         ELSE sig' = a.sig /\ w' = a.w /\ q' = a.q /\ t' = t
    /\ IF Catches(r)
         THEN /\ pc' = "on_timeout"
              /\ UNCHANGED <<stageAttempt, inFallback, curArgs, outcome>>
         ELSE IF RetryAgain(r)
           THEN /\ pc' = "exec_start"
                /\ stageAttempt' = stageAttempt + 1
                /\ inFallback' = FALSE
                /\ curArgs' = callArgs
                /\ outcome' = outcome
           ELSE /\ pc' = "done"
                /\ outcome' = r
                /\ UNCHANGED <<stageAttempt, inFallback, curArgs>>

\* The running executor invocation goes on, at p.
ExecGoesOn(p) ==
    /\ pc' = p
    /\ UNCHANGED <<stageAttempt, inFallback, curArgs, outcome, lastExec, t>>

\* The decorated function is called, with or without the reserved keyword.
Call ==
    /\ pc = "decorated"
    /\ \E o \in {Absent} \cup (0 .. MaxSeconds) :
         /\ callArgs' = CallArgs(o)
         /\ curArgs' = CallArgs(o)
    /\ stageAttempt' = 1
    /\ pc' = "exec_start"
    /\ UNCHANGED <<timeArgs, nest, cfg, cfgError, retries, now, inFallback, execCount,
                   cbCount, outcome, sigHandler, itimer, sig, w, q, t, hist,
                   lastExec>>

\* _exception_handler's except branch: `return on_timeout()`.
OnTimeout ==
    /\ pc = "on_timeout"
    /\ IF Recovery = "user"
         THEN /\ cbCount' = cbCount + 1
              /\ pc' = "done"
              /\ outcome' = Return(CbValue(FallbackArgs.args,
                                           FallbackArgs.kwargs))
              /\ UNCHANGED <<inFallback, curArgs>>
         ELSE /\ pc' = "exec_start"
              /\ inFallback' = TRUE
              /\ curArgs' = FallbackArgs
              /\ UNCHANGED <<cbCount, outcome>>
    /\ UNCHANGED <<timeArgs, nest, cfg, cfgError, retries, now, callArgs, stageAttempt,
                   execCount, sigHandler, itimer, sig, w, q, t, hist,
                   lastExec>>

(* --------------------------- signal strategy --------------------------- *)

\* _signaler.new_function, up to the call of the wrapped function: the
\* handler is installed and the timer armed when new_seconds is truthy.
SigEnter ==
    /\ pc = "exec_start"
    /\ cfg.use_signals
    /\ CanElapse(curArgs)
    /\ LET new_seconds == EffectiveSeconds(curArgs) IN
       /\ IF Truthy(new_seconds)
            THEN /\ sigHandler' = "handler"
                 /\ itimer' = now + new_seconds + 1
                 /\ sig' = [new_seconds |-> new_seconds,
                            old_handler |-> sigHandler,
                            in_try |-> Truthy(cfg.seconds),
                            pending |-> NoResult]
            ELSE /\ sig' = [new_seconds |-> new_seconds,
                            old_handler |-> "",
                            in_try |-> Truthy(cfg.seconds),
                            pending |-> NoResult]
                 /\ UNCHANGED <<sigHandler, itimer>>
       /\ hist' = [NoHist EXCEPT !.armed = Truthy(new_seconds),
                                 !.bound = new_seconds]
    /\ pc' = "sig_run"
    /\ execCount' = execCount + 1
    /\ lastExec' = NoResult
    /\ UNCHANGED <<timeArgs, nest, cfg, cfgError, retries, now, callArgs, curArgs,
                   stageAttempt, inFallback, cbCount, outcome, w, q, t>>

\* The wrapped function ends by itself with r.  Without the try block
\* (`if not seconds: return function(...)`) r leaves the wrapper at once.
SigFnEnds(r) ==
    /\ pc = "sig_run"
    /\ LET h == [hist EXCEPT !.fnResult = r,
                             !.inTime = (itimer # 0 /\ now + 1 < itimer)] IN
       IF sig.in_try
         THEN /\ sig' = [sig EXCEPT !.pending = r]
              /\ hist' = h
              /\ UNCHANGED <<w, q>>
              /\ ExecGoesOn("sig_finally")
         ELSE ExecEnds(r, Att(sig, w, q, h))
    /\ UNCHANGED <<timeArgs, nest, cfg, cfgError, retries, now, callArgs, execCount,
                   cbCount, sigHandler, itimer>>

SigFnReturns == SigFnEnds(Return(FnValue(curArgs)))

SigFnRaises == SigFnEnds(FnError)

\* The finally block: the timer is disarmed and the old handler installed
\* again when new_seconds is truthy; then the pending result leaves.
SigFinally ==
    /\ pc = "sig_finally"
    /\ IF Truthy(sig.new_seconds)
         THEN /\ itimer' = 0
              /\ sigHandler' = sig.old_handler
         ELSE UNCHANGED <<itimer, sigHandler>>
    /\ ExecEnds(sig.pending, Att(sig, w, q, hist))
    /\ UNCHANGED <<timeArgs, nest, cfg, cfgError, retries, now, callArgs, execCount,
                   cbCount>>

\* ITIMER_REAL expires and SIGALRM is delivered to the main thread: the
\* installed handler raises the configured error wherever the thread is.
AlarmFires ==
    /\ itimer # 0
    /\ now + 1 >= itimer
    /\ sigHandler = "handler"
    /\ itimer' = 0
    /\ LET e == TimeoutFailure
           h == [hist EXCEPT !.fired = TRUE, !.late = (pc = "sig_run")] IN
       CASE pc = "sig_run" /\ sig.in_try ->
              /\ sig' = [sig EXCEPT !.pending = e]
              /\ hist' = h
              /\ UNCHANGED <<w, q>>
              /\ ExecGoesOn("sig_finally")
         [] pc = "sig_run" /\ ~sig.in_try ->
              ExecEnds(e, Att(sig, w, q, h))
         [] pc = "sig_finally" ->
              ExecEnds(e, Att(sig, w, q, h))
         [] OTHER ->
              /\ hist' = h
              /\ UNCHANGED <<sig, w, q>>
              /\ ExecGoesOn("stray_alarm")
    /\ UNCHANGED <<timeArgs, nest, cfg, cfgError, retries, now, callArgs, execCount,
                   cbCount, sigHandler>>

(* --------------------------- worker strategy --------------------------- *)

\* (mutant) the deadline counted from the start of the clock.
DeadlineFromStart(limit) == limit

\* _Timeout.__call__: self.__timeout = self.__limit + time.time().
Deadline(limit) == limit + now

\* _signaler.new_mt_function and _Timeout.__call__ up to the poll loop: a
\* fresh _Timeout, a fresh one-slot queue, a started daemon process and the
\* deadline limit + time.time().
WSpawn ==
    /\ pc = "exec_start"
    /\ ~cfg.use_signals
    /\ CanElapse(curArgs)
    /\ LET limit == EffectiveSeconds(curArgs) IN
       /\ t' = [limit |-> limit, timeout |-> Deadline(limit)]
       /\ hist' = [NoHist EXCEPT !.armed = Truthy(limit), !.bound = limit]
    /\ q' = NoQueue
    /\ w' = [NoWorker EXCEPT !.started = TRUE, !.alive = TRUE,
                             !.stage = "running"]
    /\ pc' = "w_poll"
    /\ execCount' = execCount + 1
    /\ lastExec' = NoResult
    /\ UNCHANGED <<timeArgs, nest, cfg, cfgError, retries, now, callArgs, curArgs,
                   stageAttempt, inFallback, cbCount, outcome, sigHandler,
                   itimer, sig>>

\* _Timeout.ready, first half: the deadline test that leads to cancel().
DeadlinePassed == Truthy(t.limit) /\ t.timeout < now

\* (mutant) _target putting an item again after its item was written.
WorkerPutsAgain(item, picklable) ==
    /\ pc \in {"w_poll", "w_value"}
    /\ w.alive
    /\ w.stage \in {"running", "fed"}
    /\ w' = [w EXCEPT !.stage = "put", !.item = item, !.picklable = picklable]
    /\ q' = [q EXCEPT !.sem = TRUE]
    /\ hist' = [hist EXCEPT !.fnResult = item, !.late = DeadlinePassed,
                            !.puts = @ + 1]
    /\ UNCHANGED <<timeArgs, nest, cfg, pc, cfgError, retries, now, callArgs,
                   curArgs, stageAttempt, inFallback, execCount, cbCount,
                   outcome, sigHandler, itimer, sig, t, lastExec>>

\* _target: queue.put((True, function(...))) or, on an Exception,
\* queue.put((False, error)).  put() takes the queue's slot at once and
\* leaves the item to the feeder thread.
WorkerPuts(item, picklable) ==
    /\ pc \in {"w_poll", "w_value"}
    /\ w.alive
    /\ w.stage = "running"
    /\ w' = [w EXCEPT !.stage = "put", !.item = item, !.picklable = picklable]
    /\ q' = [q EXCEPT !.sem = TRUE]
    /\ hist' = [hist EXCEPT !.fnResult = item, !.late = DeadlinePassed,
                            !.puts = @ + 1]
    /\ UNCHANGED <<timeArgs, nest, cfg, pc, cfgError, retries, now, callArgs, curArgs,
                   stageAttempt, inFallback, execCount, cbCount, outcome,
                   sigHandler, itimer, sig, t, lastExec>>

WorkerFnReturns == WorkerPuts(Return(FnValue(curArgs)), TRUE)

WorkerFnReturnsUnpicklable == WorkerPuts(Return(FnValue(curArgs)), FALSE)

WorkerFnRaises == WorkerPuts(FnError, TRUE)

\* The queue's feeder thread pickles the item and writes it to the pipe; an
\* item that cannot be pickled never arrives.
WorkerFeeds ==
    /\ pc \in {"w_poll", "w_value"}
    /\ w.alive
    /\ w.stage = "put"
    /\ w' = [w EXCEPT !.stage = "fed"]
    /\ IF w.picklable
         THEN /\ q' = [q EXCEPT !.pipe = w.item]
              /\ hist' = [hist EXCEPT
                            !.inTime = (Truthy(t.limit) /\ now < t.timeout)]
         ELSE /\ q' = q
              /\ hist' = [hist EXCEPT !.lost = TRUE]
    /\ UNCHANGED <<timeArgs, nest, cfg, pc, cfgError, retries, now, callArgs, curArgs,
                   stageAttempt, inFallback, execCount, cbCount, outcome,
                   sigHandler, itimer, sig, t, lastExec>>

\* The worker process ends: by itself once _target is through, or by the
\* SIGTERM of terminate(), which takes effect some time after it is sent.
WorkerExits ==
    /\ pc \in {"w_poll", "w_value"}
    /\ w.alive
    /\ w.stage = "fed" \/ w.term
    /\ w' = [w EXCEPT !.alive = FALSE]
    /\ hist' = [hist EXCEPT !.lost = (hist.lost \/ w.stage # "fed"),
                            !.late = (hist.late \/ w.stage = "running")]
    /\ UNCHANGED <<timeArgs, nest, cfg, pc, cfgError, retries, now, callArgs, curArgs,
                   stageAttempt, inFallback, execCount, cbCount, outcome,
                   sigHandler, itimer, sig, q, t, lastExec>>

\* (mutant) a live worker terminated without the deadline test of `ready`.
CancelTerminatesEarly == Truthy(t.limit) /\ w.alive

\* _Timeout.cancel: terminate a live worker, else raise the configured error.
CancelTerminates == DeadlinePassed /\ w.alive

\* (mutant) cancel() raising whether or not the worker is alive.
CancelRaisesAlways == DeadlinePassed

\* (mutant) cancel() without its else branch.
CancelOnlyTerminates == FALSE

CancelRaises == DeadlinePassed /\ ~w.alive

\* _Timeout.ready, second half: queue.full() and not queue.empty().
QueueReady == q.sem /\ q.pipe # NoResult

\* (mutant) cancel() that finds the worker alive and leaves it alone.
AfterReadyUntouched(x) == x

\* The worker and the observations after one evaluation of `ready` that
\* does not raise.
AfterReady(x) == IF CancelTerminates THEN [x EXCEPT !.term = TRUE] ELSE x

Observed(h) == IF CancelTerminates THEN [h EXCEPT !.fired = TRUE] ELSE h

\* One turn of `while not self.ready: time.sleep(0.01)`.
WPoll ==
    /\ pc = "w_poll"
    /\ IF CancelRaises
         THEN ExecEnds(TimeoutFailure, Att(sig, w, q, hist))
         ELSE /\ w' = AfterReady(w)
              /\ hist' = Observed(hist)
              /\ UNCHANGED <<sig, q>>
              /\ ExecGoesOn(IF QueueReady THEN "w_value" ELSE "w_poll")
    /\ UNCHANGED <<timeArgs, nest, cfg, cfgError, retries, now, callArgs, execCount, cbCount,
                   sigHandler, itimer>>

\* _Timeout.value: `ready` is evaluated once more, then the item is taken
\* from the queue and returned or raised by its flag; None when not ready.
WValue ==
    /\ pc = "w_value"
    /\ IF CancelRaises
         THEN ExecEnds(TimeoutFailure, Att(sig, w, q, hist))
         ELSE IF QueueReady
           THEN ExecEnds(q.pipe,
                         Att(sig, AfterReady(w), NoQueue,
                             [Observed(hist) EXCEPT !.gets = @ + 1]))
           ELSE ExecEnds(Return(NoneValue),
                         Att(sig, AfterReady(w), q, Observed(hist)))
    /\ UNCHANGED <<timeArgs, nest, cfg, cfgError, retries, now, callArgs, execCount, cbCount,
                   sigHandler, itimer>>

(* -------------------------------- clock -------------------------------- *)

\* Time passes while the call is running or a timer is left armed; an
\* expired timer is delivered before more time passes.
Tick ==
    /\ now < MaxTime
    /\ \/ pc \in {"sig_run", "sig_finally", "w_poll", "w_value"}
       \/ pc = "done" /\ itimer # 0
    /\ ~(itimer # 0 /\ now + 1 >= itimer)
    /\ now' = now + 1
    /\ UNCHANGED <<timeArgs, nest, cfg, pc, cfgError, retries, callArgs, curArgs,
                   stageAttempt, inFallback, execCount, cbCount, outcome,
                   sigHandler, itimer, sig, w, q, t, hist, lastExec>>

Next ==
    \/ Decorate
    \/ Call
    \/ OnTimeout
    \/ SigEnter
    \/ SigFnReturns
    \/ SigFnRaises
    \/ SigFinally
    \/ AlarmFires
    \/ WSpawn
    \/ WorkerFnReturns
    \/ WorkerFnReturnsUnpicklable
    \/ WorkerFnRaises
    \/ WorkerFeeds
    \/ WorkerExits
    \/ WPoll
    \/ WValue
    \/ Tick

Spec == Init /\ [][Next]_vars

(* ----------------------- the worker strategy alone --------------------- *)

\* The bare executor under the worker strategy: no recovery stage and no
\* retry stage, so that what the executor ends with is what the call ends
\* with.  The clock advances, the caller's poll loop runs, the feeder
\* thread writes and a worker that is through or was sent SIGTERM exits.
InitWorker ==
    /\ Init
    /\ ~cfg.use_signals
    /\ cfg.exception_type = "TimeoutError"
    /\ cfg.on_timeout = NoCallable
    /\ cfg.retries = 0

NextWorker ==
    \/ Decorate
    \/ Call
    \/ WSpawn
    \/ WorkerFnReturns
    \/ WorkerFnReturnsUnpicklable
    \/ WorkerFnRaises
    \/ WorkerFeeds
    \/ WorkerExits
    \/ WPoll
    \/ WValue
    \/ Tick

WorkerSpec ==
    /\ InitWorker
    /\ [][NextWorker]_vars
    /\ WF_vars(Tick)
    /\ WF_vars(WPoll)
    /\ WF_vars(WValue)
    /\ WF_vars(WorkerFeeds)
    /\ WF_vars(WorkerExits)

(* ------------------- resolution of the time inputs --------------------- *)

\* Every form of limit with every combination of seconds, minutes and hours.
\* A datetime is drawn no earlier than the latest evaluation of timeout(...).
TimeArgsInputs ==
    [ limit : {NoLimit}
              \cup {Number(n) : n \in 0 .. MaxSeconds}
              \cup {Timedelta(n) : n \in 0 .. MaxSeconds}
              \cup {Datetime(d) : d \in MaxIdle .. MaxIdle + MaxSeconds},
      seconds : {Unset} \cup (0 .. MaxSeconds),
      minutes : {Unset, 0, 1},
      hours : {Unset, 0, 1},
      at : {0} ]

\* timeout(...) with any time inputs and the defaults otherwise, under
\* either strategy.
InitResolve ==
    /\ timeArgs \in TimeArgsInputs
    /\ \E u \in BOOLEAN :
         cfg = [seconds |-> timeArgs.seconds, use_signals |-> u,
                exception_type |-> "TimeoutError",
                exception_message |-> NoMsg, on_timeout |-> NoCallable,
                on_timeout_args |-> <<>>, on_timeout_kwargs |-> <<>>,
                retries |-> NoRetries]
    /\ pc = "config"
    /\ cfgError = ""
    /\ retries = 0
    /\ now = 0
    /\ callArgs = CallArgs(Absent)
    /\ curArgs = CallArgs(Absent)
    /\ stageAttempt = 0
    /\ inFallback = FALSE
    /\ execCount = 0
    /\ cbCount = 0
    /\ outcome = NoResult
    /\ sigHandler = "previous"
    /\ itimer = 0
    /\ sig = NoSig
    /\ w = NoWorker
    /\ q = NoQueue
    /\ t = NoTimeout
    /\ hist = NoHist
    /\ lastExec = NoResult
    /\ nest = NoNest

\* Time passes before timeout(...) is evaluated, and between that and the
\* call of the decorated function.
TickIdle ==
    /\ pc \in {"config", "decorated"}
    /\ now < MaxIdle
    /\ now' = now + 1
    /\ UNCHANGED <<timeArgs, nest, cfg, pc, cfgError, retries, callArgs,
                   curArgs, stageAttempt, inFallback, execCount, cbCount,
                   outcome, sigHandler, itimer, sig, w, q, t, hist, lastExec>>

NextResolve ==
    \/ TickIdle
    \/ Decorate
    \/ Call
    \/ SigEnter
    \/ WSpawn

ResolveSpec == InitResolve /\ [][NextResolve]_vars

(* ------------------ nested use of the signal strategy ------------------ *)

\* outer and inner are decorated with timeout(seconds=..., use_signals=True)
\* and truthy seconds; outer calls inner once and goes on after it.  Each
\* frame of new_function keeps its own new_seconds and old_handler; the
\* process has one SIGALRM handler and one ITIMER_REAL.
\*   expiry         the value of itimer set for outer when it was entered
\*   pending        what is on its way out of the running frame
\*   innerReturned  inner has returned its value to outer
\*   overrun        outer's function ended by itself after outer's bound
Frame(s, old) == [new_seconds |-> s, old_handler |-> old]

InitNested ==
    /\ Init
    /\ cfg.use_signals
    /\ cfg.seconds > 0
    /\ cfg.exception_type = "TimeoutError"
    /\ cfg.on_timeout = NoCallable
    /\ cfg.retries = 0

\* outer's new_function up to the call of outer.
NOuterEnter ==
    /\ pc = "config"
    /\ \E s \in 1 .. MaxSeconds :
         /\ now + cfg.seconds + s + 1 <= MaxTime
         /\ nest' = [depth |-> 1,
                     outer |-> Frame(cfg.seconds, sigHandler),
                     inner |-> Frame(s, ""),
                     expiry |-> now + cfg.seconds + 1,
                     pending |-> NoResult,
                     innerReturned |-> FALSE,
                     overrun |-> FALSE]
    /\ sigHandler' = "outer"
    /\ itimer' = now + cfg.seconds + 1
    /\ pc' = "n_outer_run"
    /\ UNCHANGED <<timeArgs, cfg, cfgError, retries, now, callArgs, curArgs,
                   stageAttempt, inFallback, execCount, cbCount, outcome,
                   sig, w, q, t, hist, lastExec>>

\* outer calls inner: inner's new_function up to the call of inner.
NInnerEnter ==
    /\ pc = "n_outer_run"
    /\ nest' = [nest EXCEPT !.depth = 2, !.inner.old_handler = sigHandler]
    /\ sigHandler' = "inner"
    /\ itimer' = now + nest.inner.new_seconds + 1
    /\ pc' = "n_inner_run"
    /\ UNCHANGED <<timeArgs, cfg, cfgError, retries, now, callArgs, curArgs,
                   stageAttempt, inFallback, execCount, cbCount, outcome,
                   sig, w, q, t, hist, lastExec>>

\* inner's function returns; its value waits for inner's finally block.
NInnerReturns ==
    /\ pc = "n_inner_run"
    /\ nest' = [nest EXCEPT !.pending = Return(Val("inner", <<>>, <<>>))]
    /\ pc' = "n_inner_finally"
    /\ UNCHANGED <<timeArgs, cfg, cfgError, retries, now, callArgs, curArgs,
                   stageAttempt, inFallback, execCount, cbCount, outcome,
                   sigHandler, itimer, sig, w, q, t, hist, lastExec>>

\* inner's finally block: setitimer(ITIMER_REAL, 0), then the old handler
\* is installed again.  A value goes back to outer's function, an error
\* passes through it to outer's finally block.
NInnerFinally ==
    /\ pc = "n_inner_finally"
    /\ itimer' = 0
    /\ sigHandler' = nest.inner.old_handler
    /\ IF nest.pending.kind = "return"
         THEN /\ nest' = [nest EXCEPT !.depth = 1, !.pending = NoResult,
                                      !.innerReturned = TRUE]
              /\ pc' = "n_outer_rest"
         ELSE /\ nest' = [nest EXCEPT !.depth = 1]
              /\ pc' = "n_outer_finally"
    /\ UNCHANGED <<timeArgs, cfg, cfgError, retries, now, callArgs, curArgs,
                   stageAttempt, inFallback, execCount, cbCount, outcome,
                   sig, w, q, t, hist, lastExec>>

\* outer's function returns, after the call of inner.
NOuterReturns ==
    /\ pc = "n_outer_rest"
    /\ nest' = [nest EXCEPT !.pending = Return(Val("outer", <<>>, <<>>)),
                            !.overrun = (now + 1 > nest.expiry)]
    /\ pc' = "n_outer_finally"
    /\ UNCHANGED <<timeArgs, cfg, cfgError, retries, now, callArgs, curArgs,
                   stageAttempt, inFallback, execCount, cbCount, outcome,
                   sigHandler, itimer, sig, w, q, t, hist, lastExec>>

\* outer's finally block.
NOuterFinally ==
    /\ pc = "n_outer_finally"
    /\ itimer' = 0
    /\ sigHandler' = nest.outer.old_handler
    /\ nest' = [nest EXCEPT !.depth = 0]
    /\ outcome' = nest.pending
    /\ pc' = "done"
    /\ UNCHANGED <<timeArgs, cfg, cfgError, retries, now, callArgs, curArgs,
                   stageAttempt, inFallback, execCount, cbCount, sig, w, q,
                   t, hist, lastExec>>

\* The timer expires: the installed handler raises the configured error in
\* the frame that is running.
NAlarm ==
    /\ pc \in {"n_outer_run", "n_inner_run", "n_inner_finally",
                "n_outer_rest", "n_outer_finally"}
    /\ itimer # 0
    /\ now + 1 >= itimer
    /\ sigHandler \in {"outer", "inner"}
    /\ itimer' = 0
    /\ CASE pc = "n_inner_run" ->
              /\ nest' = [nest EXCEPT !.pending = TimeoutFailure]
              /\ pc' = "n_inner_finally"
              /\ outcome' = outcome
         [] pc = "n_outer_finally" ->
              /\ nest' = [nest EXCEPT !.depth = 0,
                                      !.pending = TimeoutFailure]
              /\ pc' = "done"
              /\ outcome' = TimeoutFailure
         [] OTHER ->
              /\ nest' = [nest EXCEPT !.depth = 1,
                                      !.pending = TimeoutFailure]
              /\ pc' = "n_outer_finally"
              /\ outcome' = outcome
    /\ UNCHANGED <<timeArgs, cfg, cfgError, retries, now, callArgs, curArgs,
                   stageAttempt, inFallback, execCount, cbCount, sigHandler,
                   sig, w, q, t, hist, lastExec>>

\* Time passes while outer or inner is running; an expired timer is
\* delivered before more time passes.
NTick ==
    /\ pc \in {"n_outer_run", "n_inner_run", "n_inner_finally",
                "n_outer_rest", "n_outer_finally"}
    /\ now < MaxTime
    /\ ~(itimer # 0 /\ now + 1 >= itimer)
    /\ now' = now + 1
    /\ UNCHANGED <<timeArgs, nest, cfg, pc, cfgError, retries, callArgs,
                   curArgs, stageAttempt, inFallback, execCount, cbCount,
                   outcome, sigHandler, itimer, sig, w, q, t, hist, lastExec>>

NextNested ==
    \/ NOuterEnter
    \/ NInnerEnter
    \/ NInnerReturns
    \/ NInnerFinally
    \/ NOuterReturns
    \/ NOuterFinally
    \/ NAlarm
    \/ NTick

NestedSpec == InitNested /\ [][NextNested]_vars

(* ------------------------------- claims -------------------------------- *)

\* An executor invocation has ended; lastExec is what it ended with and
\* hist what was observed of it.
ExecEnded == lastExec.kind # "none"

\* C1 (as claimed): an executor invocation whose wrapped function was still
\* running when its truthy bound elapsed ends by raising the configured
\* error, exception_type(exception_message) or exception_type(); it never
\* ends with a value of the wrapped function.
C1_LateCallRaisesTimeout ==
    (ExecEnded /\ hist.armed /\ hist.late) => lastExec = TimeoutFailure

\* C2 (as claimed): an executor invocation whose wrapped function returned v
\* (and, in a worker, whose v arrived in the channel) strictly before the
\* bound elapsed ends by returning v, whatever the interleaving.
C2_InTimeCallReturnsValue ==
    (ExecEnded /\ hist.inTime /\ hist.fnResult.kind = "return")
        => lastExec = hist.fnResult

\* C3 (as claimed): when a decorated call under the signal strategy has
\* left, the SIGALRM handler is the one installed before the call and the
\* interval timer is disarmed, for every seconds and every override.
C3_HandlerRestoredTimerDisarmed ==
    (cfg.use_signals /\ pc = "done")
        => (sigHandler = "previous" /\ itimer = 0)

\* C4 (as claimed): every executor invocation of a call that supplies the
\* `timeout` keyword enforces the supplied value: it is the bound armed, a
\* function running past it ends in the configured error, and a falsy value
\* arms nothing and raises no timeout.
C4_OverrideIsTheBound ==
    (callArgs.timeout # Absent /\ execCount > 0
     /\ pc \notin {"exec_start", "on_timeout"})
        => /\ hist.bound = callArgs.timeout
           /\ hist.armed = (callArgs.timeout > 0)
           /\ (ExecEnded /\ hist.late) => lastExec = TimeoutFailure
           /\ callArgs.timeout = 0
                => (~hist.fired /\ lastExec # TimeoutFailure)

\* C5: with no time inputs (seconds resolved to 0, no override) no timer is
\* armed, no handler installed, the worker is never terminated, no timeout
\* error is raised, and a call that ends ends with what the wrapped
\* function ended with.
C5_NoTimeInputsNeverTimesOut ==
    (cfg.seconds = 0 /\ callArgs.timeout = Absent)
        => /\ itimer = 0
           /\ sigHandler = "previous"
           /\ ~w.term
           /\ ~hist.fired
           /\ lastExec # TimeoutFailure
           /\ outcome # TimeoutFailure
           /\ execCount <= 1
           /\ pc = "done" => (outcome.kind # "none"
                              /\ outcome = hist.fnResult)

\* C5 witness: a call without time inputs that ran for the whole of the
\* clock under the worker strategy and returned the function's value.
C5_Witness ==
    /\ cfg.seconds = 0 /\ callArgs.timeout = Absent /\ ~cfg.use_signals
    /\ pc = "done" /\ now = MaxTime
    /\ outcome = Return(FnValue(callArgs))

\* C6 (as claimed): one decorated call invokes the executor at most
\* retries + 1 times, exactly once when retries is 0, and a further
\* invocation is started only after the previous one timed out.
C6_AtMostRetriesPlusOneExecutions ==
    /\ execCount <= retries + 1
    /\ (retries = 0 /\ pc = "done") => execCount = 1
    /\ (execCount > 0 /\ pc \in {"exec_start", "on_timeout"})
         => lastExec = TimeoutFailure

\* C7: with on_timeout configured and retries = 0, on_timeout runs at most
\* once and only after the executor raised the configured error; the call
\* then returns on_timeout(*on_timeout_args, **on_timeout_kwargs), and the
\* configured error never is the result of the call.
C7_OnTimeoutResultReplacesTimeout ==
    (cfg.on_timeout # NoCallable /\ retries = 0)
        => /\ cbCount <= 1
           /\ outcome # TimeoutFailure
           /\ cbCount = 1 => lastExec = TimeoutFailure
           /\ (pc = "done" /\ lastExec = TimeoutFailure)
                => /\ cbCount = 1
                   /\ outcome = Return(Val("on_timeout", cfg.on_timeout_args,
                                           cfg.on_timeout_kwargs))

\* C7 witness: a timed-out call under the worker strategy that returned
\* what on_timeout made of its configured arguments.
C7_Witness ==
    /\ cfg.on_timeout # NoCallable /\ retries = 0 /\ ~cfg.use_signals
    /\ cfg.on_timeout_args = <<7>> /\ cfg.on_timeout_kwargs = <<9>>
    /\ pc = "done" /\ cbCount = 1 /\ lastExec = TimeoutFailure
    /\ outcome = Return(Val("on_timeout", <<7>>, <<9>>))

\* The worker of the running invocation is gone, or its result could not be
\* pickled, and nothing arrived in the channel.
C8_ResultLost == ~cfg.use_signals /\ hist.armed /\ hist.lost

\* C8: under the worker strategy with a truthy bound, a call whose worker
\* exits without anything arriving in the channel never ends with a value:
\* it ends, after the deadline, with the configured error; and it does end.
C8_LostResultSurfacesAsTimeout ==
    /\ [](C8_ResultLost
            => /\ ~QueueReady
               /\ pc # "w_value"
               /\ ExecEnded => (lastExec = TimeoutFailure /\ t.timeout < now)
               /\ pc = "done" => outcome = TimeoutFailure)
    /\ (C8_ResultLost ~> (pc = "done" /\ outcome = TimeoutFailure))

\* C8 witness: the function returned a value that could not be pickled, the
\* worker exited by itself, and the call raised the configured error with
\* its message.
C8_Witness ==
    /\ C8_ResultLost /\ ~w.term /\ pc = "done"
    /\ hist.fnResult = Return(FnValue(callArgs)) /\ ~w.picklable /\ ~w.alive
    /\ outcome = Raise("TimeoutError", <<"Timeout exceeded.">>)

\* C9 (as claimed): an error the wrapped function raised by itself, of
\* another kind than exception_type, with no bound armed or before the
\* bound elapsed, is what the executor invocation ends with, and what the
\* decorated call ends with; the timeout error never takes its place.
C9_OwnErrorReachesCaller ==
    (ExecEnded /\ (~hist.armed \/ hist.inTime)
     /\ hist.fnResult.kind = "raise")
        => /\ lastExec = hist.fnResult
           /\ pc = "done" => outcome = hist.fnResult

\* What timeout() is to answer for the drawn arguments, rule by rule.
BadType == cfg.exception_type \notin {"TimeoutError", "RuntimeError"}

NegativeRetries == cfg.retries # NoRetries /\ cfg.retries < 0

NonIntegerRetries == cfg.retries # NoRetries /\ cfg.retries % 2 # 0

NothingBuilt ==
    /\ pc = "config_error" /\ execCount = 0 /\ itimer = 0
    /\ sigHandler = "previous" /\ ~w.started /\ outcome = NoResult

\* C10 (as claimed): once timeout(...) is evaluated, an exception_type that
\* is no subclass of Exception has raised TypeError, a negative retries
\* ValueError and a non-integer retries TypeError (exception_type being
\* valid), and nothing was built or started.
C10_Original ==
    pc # "config"
        => /\ BadType => cfgError = "TypeError"
           /\ (~BadType /\ NegativeRetries) => cfgError = "ValueError"
           /\ (~BadType /\ NonIntegerRetries) => cfgError = "TypeError"
           /\ cfgError # "" => NothingBuilt

\* C10 (amended): the checks are made in order: a bad exception_type raises
\* TypeError; else a negative retries, integer or not, raises ValueError;
\* else a non-integer retries raises TypeError; else nothing is raised.  A
\* rejected configuration builds no executor, arms no timer and spawns no
\* worker.
C10_RejectedInSourceOrder ==
    pc # "config"
        => /\ BadType => cfgError = "TypeError"
           /\ (~BadType /\ NegativeRetries) => cfgError = "ValueError"
           /\ (~BadType /\ ~NegativeRetries /\ NonIntegerRetries)
                => cfgError = "TypeError"
           /\ (~BadType /\ ~NegativeRetries /\ ~NonIntegerRetries)
                => (cfgError = "" /\ pc # "config_error")
           /\ cfgError # "" => NothingBuilt

\* C10 witness: retries = -1.5 was rejected with ValueError.
C10_Witness ==
    /\ pc = "config_error" /\ cfg.retries = -3 /\ ~BadType
    /\ cfgError = "ValueError"
\* What each time input is to contribute, in seconds.
LimitPart ==
    CASE timeArgs.limit.kind = "number" -> timeArgs.limit.v
      [] timeArgs.limit.kind = "timedelta" -> timeArgs.limit.v
      [] timeArgs.limit.kind = "datetime" -> timeArgs.limit.v - timeArgs.at
      [] OTHER -> 0

SecondsPart == IF timeArgs.seconds = Unset THEN 0 ELSE timeArgs.seconds

MinutesPart == IF timeArgs.minutes = Unset THEN 0 ELSE 60 * timeArgs.minutes

HoursPart == IF timeArgs.hours = Unset THEN 0 ELSE 3600 * timeArgs.hours

C20_DeadlineResolvedAtDecoration ==
    (timeArgs.limit.kind = "datetime" /\ pc \notin {"config", "config_error"})
        => /\ cfg.seconds = (timeArgs.limit.v - timeArgs.at)
                            + SecondsPart + MinutesPart + HoursPart
           /\ (execCount > 0 /\ callArgs.timeout = Absent)
                => hist.bound = cfg.seconds

\* C20 witness: a call made after the evaluation of timeout(...) runs with
\* the bound of the evaluation, which is not the datetime minus the time
\* of the call.
C20_Witness ==
    /\ timeArgs.limit.kind = "datetime" /\ execCount = 1
    /\ callArgs.timeout = Absent /\ timeArgs.at < now
    /\ timeArgs.seconds = Unset /\ timeArgs.minutes = Unset
    /\ timeArgs.hours = Unset
    /\ hist.bound = timeArgs.limit.v - timeArgs.at
    /\ hist.bound # timeArgs.limit.v - now
\* C12: in every evaluation of `ready` by the caller, cancel() is reached
\* exactly when the deadline has passed; reached with the worker alive, it
\* sends the termination and raises nothing; reached with the worker not
\* alive, it terminates nothing and the call ends with the configured
\* error.
C12_CancelIsAsymmetric ==
    [][(WPoll \/ WValue)
         => /\ (DeadlinePassed /\ w.alive)
                 => (w'.term /\ w'.alive /\ lastExec' # TimeoutFailure)
            /\ (DeadlinePassed /\ ~w.alive)
                 => (w' = w /\ lastExec' = TimeoutFailure /\ pc' = "done"
                     /\ outcome' = TimeoutFailure)
            /\ ~DeadlinePassed
                 => (w' = w /\ lastExec' # TimeoutFailure)]_vars

\* C12 witness: a worker that was sent the termination while alive, and a
\* call that raised the configured error once the worker was gone.
C12_Witness ==
    /\ ~cfg.use_signals /\ pc = "done" /\ outcome = TimeoutFailure
    /\ w.term /\ ~w.alive /\ w.stage = "running"

\* C15 (as claimed): under fairness a worker call with a truthy bound ends,
\* and it ends either with the published item, consumed, or, the deadline
\* having passed with nothing published, with the worker gone and the
\* configured error.
C15_WorkerCallEnds ==
    /\ ((pc \in {"w_poll", "w_value"} /\ hist.armed) ~> pc = "done")
    /\ []((pc = "done" /\ hist.armed)
            => \/ /\ outcome.kind # "none"
                  /\ outcome = hist.fnResult
                  /\ q = NoQueue
               \/ /\ outcome = TimeoutFailure
                  /\ t.timeout < now
                  /\ q.pipe = NoResult
                  /\ ~w.alive)

C18_NestedCallsCompose ==
    /\ (pc = "n_outer_rest" /\ nest.innerReturned)
         => (sigHandler = "outer" /\ itimer = nest.expiry)
    /\ (pc = "done" /\ nest.depth = 0 /\ nest.innerReturned /\ nest.overrun)
         => outcome = TimeoutFailure
\* C13 (as claimed): with retries > 0 and on_timeout configured, on_timeout
\* is invoked only once retries + 1 executor invocations have timed out;
\* an earlier timeout leads to a fresh attempt, not to on_timeout.
C13_OnTimeoutAfterLastAttempt ==
    (cfg.on_timeout # NoCallable /\ retries > 0)
        => /\ (pc = "on_timeout" \/ cbCount > 0) => execCount = retries + 1
           /\ (pc = "done" /\ lastExec = TimeoutFailure)
                => execCount = retries + 1

\* C14: with on_timeout configured, on_timeout runs only after the
\* executor raised an error of exception_type: an executor that ended with
\* another error has that error as the result of the call, one that
\* returned has its value as the result, and on_timeout has not run.
C14_RecoveryCatchesOnlyTimeout ==
    cfg.on_timeout # NoCallable
        => /\ (pc = "on_timeout" \/ cbCount > 0)
                => (lastExec.kind = "raise"
                    /\ lastExec.exc = cfg.exception_type)
           /\ (pc = "done" /\ lastExec.kind = "return")
                => (cbCount = 0 /\ outcome = lastExec)
           /\ (pc = "done" /\ lastExec.kind = "raise"
               /\ lastExec.exc # cfg.exception_type)
                => (cbCount = 0 /\ outcome = lastExec)

\* C14 witness: the function raised ValueError under a configured
\* on_timeout, and ValueError is the result of the call.
C14_Witness ==
    /\ cfg.on_timeout # NoCallable /\ pc = "done" /\ cbCount = 0
    /\ lastExec = FnError /\ outcome = FnError

\* C17: every executor invocation, a retry as much as the first attempt,
\* starts a window of its full bound at the time it starts: the timer is
\* armed to fire the bound from now, or a new worker, an empty queue and
\* the deadline now + bound are made; an attempt of the retry stage has
\* the bound of the call.
C17_EachAttemptHasAFullWindow ==
    [][execCount' = execCount + 1
         => /\ hist'.bound = (IF curArgs.timeout = Absent THEN cfg.seconds
                               ELSE curArgs.timeout)
            /\ ~inFallback
                 => hist'.bound = (IF callArgs.timeout = Absent
                                     THEN cfg.seconds ELSE callArgs.timeout)
            /\ (cfg.use_signals /\ hist'.bound > 0)
                 => (itimer' = now + hist'.bound + 1
                     /\ sigHandler' = "handler")
            /\ ~cfg.use_signals
                 => /\ t'.limit = hist'.bound
                    /\ t'.timeout = now + hist'.bound
                    /\ q' = NoQueue
                    /\ w'.alive /\ w'.stage = "running" /\ ~w'.term]_vars

\* C17 witness: the second attempt of the retry stage has just spawned its
\* worker, some time after the call began, with its whole bound ahead.
C17_Witness ==
    /\ ~cfg.use_signals /\ stageAttempt = 2 /\ ~inFallback
    /\ pc = "w_poll" /\ now > 0 /\ hist.armed
    /\ t.timeout = now + hist.bound /\ q = NoQueue
    /\ w.alive /\ w.stage = "running" /\ ~w.term

\* C19: the queue of a call has one slot; for every outcome of the wrapped
\* function the worker puts at most one item, tagged success with the value
\* or failure with the error, a worker terminated while the function runs
\* puts none, and the caller gets at most one item, never more than put.
C19_AtMostOnePublication ==
    ~cfg.use_signals
        => /\ hist.puts <= 1
           /\ hist.gets <= hist.puts
           /\ q.sem => (hist.puts = 1 /\ hist.gets = 0)
           /\ q.pipe # NoResult
                => (q.sem /\ q.pipe = hist.fnResult
                    /\ q.pipe.kind \in {"return", "raise"})
           /\ (w.stage = "running") => hist.puts = 0
           /\ hist.gets = 1 => (ExecEnded /\ lastExec = hist.fnResult)

\* C19 witness: the function raised, the one failure item was put and got,
\* and the queue is empty again.
C19_Witness ==
    /\ ~cfg.use_signals /\ pc = "done" /\ hist.puts = 1 /\ hist.gets = 1
    /\ outcome = FnError /\ q = NoQueue
\* C21 (as claimed): under the worker strategy, once the poll loop has seen
\* the queue ready and has been left, the call ends with the item of the
\* queue, the value returned or the error raised; it ends neither with the
\* timeout error nor with None, also when the deadline passes in between.
C21_ReadyResultIsDelivered ==
    [][(pc = "w_value" /\ pc' # "w_value")
         => /\ lastExec' = q.pipe
            /\ lastExec' # TimeoutFailure
            /\ lastExec' # Return(NoneValue)]_vars

\* C22 (as claimed): with retries > 0 and no on_timeout, every executor
\* invocation after the first calls the wrapped function with the
\* positional and keyword arguments of the decorated call, not with
\* on_timeout_args / on_timeout_kwargs and not without arguments.
C22_ReattemptsKeepTheArguments ==
    [][(HasRetryStage /\ cfg.on_timeout = NoCallable
        /\ execCount >= 1 /\ execCount' = execCount + 1)
         => /\ curArgs'.args = callArgs.args
            /\ curArgs'.kwargs = callArgs.kwargs]_vars

\* C23: under the worker strategy, a call that ends with the timeout error
\* of cancel() ends after its deadline with its worker no longer alive, and
\* a worker is sent terminate() only once the deadline of its call has
\* passed.
C23_NoWorkerOutlivesATimeout ==
    ~cfg.use_signals
        => /\ w.term => (w.started /\ t.limit > 0 /\ t.timeout < now)
           /\ (pc = "done" /\ outcome = TimeoutFailure)
                => (~w.alive /\ t.limit > 0 /\ t.timeout < now)

\* C23 witness: a call whose worker was terminated after the deadline has
\* ended with the timeout error, the worker gone.
C23_Witness ==
    /\ ~cfg.use_signals /\ pc = "done" /\ outcome = TimeoutFailure
    /\ w.started /\ w.term /\ ~w.alive /\ t.timeout < now

====
